---- MODULE Spec2Model ----
(***************************************************************************)
(* Model of the SICA chat client: the agent orchestration loop             *)
(* (handleFormSubmit), the display log (addMessage), the loading state     *)
(* (setLoading) and the tool dispatcher (callTool) with its executors.     *)
(*                                                                         *)
(* One behaviour is one page session.  Every await of the handler is a     *)
(* point where the handler is suspended; the code between two awaits runs  *)
(* to completion and is one action.                                        *)
(***************************************************************************)
EXTENDS Integers, Sequences, FiniteSets, TLC

(***************************************************************************)
(* Bounds of the model.                                                    *)
(***************************************************************************)
\* Submissions accepted (non-empty prompt) in one session.
MaxSubmits == 2
\* generateContent calls issued in one session.
MaxModelCalls == 3
\* callTool dispatches in one session.
MaxDispatches == 2

VARIABLES
    inputValue,      \* inputEl.value, a sequence of characters
    inputDisabled,   \* inputEl.disabled
    submitDisabled,  \* submitButton.disabled
    loadingHidden,   \* loadingEl has the class 'hidden'
    messages,        \* children of messagesEl, oldest first
    runs,            \* the activations of handleFormSubmit, oldest first
    ignoredSubmit,   \* ghost: the last submit event returned at the empty-prompt check
    probe            \* a dispatch made outside the loop: the call, its environments, the results

vars == <<inputValue, inputDisabled, submitDisabled, loadingHidden, messages, runs,
          ignoredSubmit, probe>>

(***************************************************************************)
(* Strings of the program.                                                 *)
(***************************************************************************)
WELCOME == "Hello! I am SICA, a Self-Improving Intelligent Coding Agent. How can I assist you with your architectural and coding needs today?"
ERROR_NOTICE == "An error occurred. Please check the console."

RECURSIVE SeqsUpTo(_, _)
SeqsUpTo(S, n) ==
    IF n = 0 THEN {<<>>}
    ELSE LET shorter == SeqsUpTo(S, n - 1)
         IN  shorter \cup {Append(s, x) : s \in {t \in shorter : Len(t) = n - 1}, x \in S}

\* What the user can have typed into the prompt input, as sequences of
\* characters: nothing, blanks only, and two prompts, one of them padded.
InputValues == { <<>>, <<" ", " ">>, <<"h", "i">>, <<" ", "g", "o", " ">> }

RECURSIVE TrimStart(_)
TrimStart(s) ==
    IF s # <<>> /\ Head(s) = " " THEN TrimStart(Tail(s)) ELSE s

RECURSIVE TrimEnd(_)
TrimEnd(s) ==
    IF s # <<>> /\ s[Len(s)] = " " THEN TrimEnd(SubSeq(s, 1, Len(s) - 1)) ELSE s

\* A trim that removes nothing.
trimNothing(s) == s

\* String.prototype.trim
trim(s) == TrimEnd(TrimStart(s))

\* The string made of the characters of s.
RECURSIVE StringOf(_)
StringOf(s) == IF s = <<>> THEN "" ELSE Head(s) \o StringOf(Tail(s))

(***************************************************************************)
(* tools.tsx: the declarations and the executors.                          *)
(***************************************************************************)
functionDeclarations ==
    << "getWeather", "getCurrentTime", "controlFan", "search_github_repo",
       "execute_code", "retrieve_knowledge", "perform_code_critique" >>

\* An executor either returns a value or throws an Error with a message.
Returned(v) == [threw |-> FALSE, value |-> v]
Threw(msg) == [threw |-> TRUE, message |-> msg]

\* A destructured parameter that is absent is undefined; the executors below
\* name the fields they read.
Has(args, f) == f \in DOMAIN args

\* A getWeather whose unit defaults to celsius.
getWeatherCelsiusByDefault(args, rnd) ==
    LET temp == rnd + 10
        unit == IF Has(args, "unit") THEN args.unit ELSE "celsius"
    IN  Returned([temperature |-> ToString(temp) \o "° " \o (IF unit = "celsius" THEN "C" ELSE "F"),
                  location |-> IF Has(args, "location") THEN args.location ELSE "undefined"])

getWeather(args, rnd) ==
    LET temp == rnd + 10
        unit == IF Has(args, "unit") THEN args.unit ELSE "fahrenheit"
    IN  Returned([temperature |-> ToString(temp) \o "° " \o (IF unit = "celsius" THEN "C" ELSE "F"),
                  location |-> IF Has(args, "location") THEN args.location ELSE "undefined"])

getCurrentTime(args, clock) ==
    Returned([time |-> clock,
              location |-> IF Has(args, "location") THEN args.location ELSE "undefined"])

controlFan(args) ==
    Returned([status |-> "success",
              message |-> "Fan set to "
                          \o (IF Has(args, "speed") THEN ToString(args.speed) ELSE "undefined")
                          \o "% speed in "
                          \o (IF Has(args, "mode") THEN args.mode ELSE "undefined")
                          \o " mode."])

\* What fetch and response.json() can do to search_github_repo.
FetchOutcomes ==
    { [kind |-> "rejected", message |-> "Failed to fetch"],
      [kind |-> "response", ok |-> FALSE, status |-> 403, message |-> "rate limit"],
      [kind |-> "response", ok |-> TRUE, total_count |-> 1,
       items |-> << [full_name |-> "tlaplus/tlaplus", html_url |-> "https://github.com/tlaplus/tlaplus",
                     description |-> "TLC", stargazers_count |-> 2] >>],
      [kind |-> "response", ok |-> TRUE, total_count |-> 1,
       items |-> << [full_name |-> "tlaplus/tlaplus", html_url |-> "https://github.com/tlaplus/tlaplus",
                     description |-> "TLC"] >>] }

\* One entry of data.items mapped to a result; a field the item lacks is
\* undefined in the result.
RepoResult(repo) ==
    LET base == [name |-> repo.full_name, url |-> repo.html_url, description |-> repo.description]
    IN  IF Has(repo, "stargazers_count")
        THEN [name |-> base.name, url |-> base.url, description |-> base.description,
              stars |-> repo.stargazers_count]
        ELSE base

SearchFailure(msg) ==
    [status |-> "failure",
     error |-> "GitHub API request failed: " \o msg,
     message |-> "Could not fetch repository data from GitHub."]

\* A search without its try and catch: a failed request is thrown.
search_github_repoThrows(args, fetch) ==
    IF fetch.kind = "rejected" THEN Threw(fetch.message)
    ELSE IF ~fetch.ok
    THEN Threw("GitHub API error! status: " \o ToString(fetch.status)
               \o ", message: " \o fetch.message)
    ELSE Returned([status |-> "success",
                   results_count |-> fetch.total_count,
                   top_results |-> [i \in 1..Len(fetch.items) |-> RepoResult(fetch.items[i])],
                   message |-> "Found " \o ToString(fetch.total_count)
                               \o " repositories. Returning top 5 sorted by stars."])

search_github_repo(args, fetch) ==
    IF fetch.kind = "rejected" THEN Returned(SearchFailure(fetch.message))
    ELSE IF ~fetch.ok
    THEN Returned(SearchFailure("GitHub API error! status: " \o ToString(fetch.status)
                                \o ", message: " \o fetch.message))
    ELSE Returned([status |-> "success",
                   results_count |-> fetch.total_count,
                   top_results |-> [i \in 1..Len(fetch.items) |-> RepoResult(fetch.items[i])],
                   message |-> "Found " \o ToString(fetch.total_count)
                               \o " repositories. Returning top 5 sorted by stars."])

execute_code(args) ==
    Returned([status |-> "success",
              output |-> "[Mock Execution] Code block received: "
                         \o (IF Has(args, "code_block") THEN args.code_block ELSE "undefined"),
              error |-> "null",
              message |-> "Code executed in a mocked secure environment."])

retrieve_knowledge(args) ==
    Returned([knowledge |-> "Mock knowledge retrieved for query: '"
                            \o (IF Has(args, "query") THEN args.query ELSE "undefined")
                            \o "'. SICA agents should be modular."])

\* execution_logs.toLowerCase() throws a TypeError when the field is absent.
perform_code_critique(args) ==
    IF ~Has(args, "execution_logs")
    THEN Threw("Cannot read properties of undefined (reading 'toLowerCase')")
    ELSE Returned([critique |-> "Critique for code: "
                                \o (IF Has(args, "code_block") THEN args.code_block ELSE "undefined")
                                \o " Based on logs: " \o args.execution_logs])

\* What the environment supplies to one dispatch.
NoEnv == [fetch |-> [kind |-> "none"], rnd |-> 0, clock |-> "12:00:00"]

\* A dispatcher that lost the case of retrieve_knowledge.
callToolWithoutKnowledgeCase(functionName, args, env) ==
    CASE functionName = "getWeather" -> getWeather(args, env.rnd)
      [] functionName = "getCurrentTime" -> getCurrentTime(args, env.clock)
      [] functionName = "controlFan" -> controlFan(args)
      [] functionName = "search_github_repo" -> search_github_repo(args, env.fetch)
      [] functionName = "execute_code" -> execute_code(args)
      [] functionName = "perform_code_critique" -> perform_code_critique(args)
      [] OTHER -> Threw("Unknown function: " \o functionName)

callTool(functionName, args, env) ==
    CASE functionName = "getWeather" -> getWeather(args, env.rnd)
      [] functionName = "getCurrentTime" -> getCurrentTime(args, env.clock)
      [] functionName = "controlFan" -> controlFan(args)
      [] functionName = "search_github_repo" -> search_github_repo(args, env.fetch)
      [] functionName = "execute_code" -> execute_code(args)
      [] functionName = "retrieve_knowledge" -> retrieve_knowledge(args)
      [] functionName = "perform_code_critique" -> perform_code_critique(args)
      [] OTHER -> Threw("Unknown function: " \o functionName)

(***************************************************************************)
(* The display log: addMessage.                                            *)
(***************************************************************************)
\* The custom renderer of a successful repository search reads
\* repo.stars.toLocaleString() of every result; that throws a TypeError for
\* a result without stars.  Every other renderer only serialises its payload.
addMessageThrows(payload, type) ==
    /\ type = "tool-result"
    /\ payload.functionName = "search_github_repo"
    /\ Has(payload.result, "status")
    /\ payload.result.status = "success"
    /\ \E i \in DOMAIN payload.result.top_results :
           ~Has(payload.result.top_results[i], "stars")

RENDER_ERROR == "Cannot read properties of undefined (reading 'toLocaleString')"

\* The element of a text message: messageEl.textContent = payload.
TextMessage(text, type) == [type |-> type, payload |-> [textContent |-> text]]

\* messagesEl.appendChild(messageEl): the log after the event is rendered.
\* A tool call or a tool result is rendered from its object, every other
\* payload as text.
addMessage(log, payload, type) ==
    Append(log, IF type \in {"tool-call", "tool-result"}
                THEN [type |-> type, payload |-> payload]
                ELSE TextMessage(payload, type))

(***************************************************************************)
(* The loading state: setLoading.                                          *)
(***************************************************************************)
\* A setLoading that shows the spinner and leaves the form usable.
setLoadingLeavesFormEnabled(isLoading) ==
    [loadingHidden |-> ~isLoading, submitDisabled |-> FALSE, inputDisabled |-> FALSE]

setLoading(isLoading) ==
    [loadingHidden |-> ~isLoading, submitDisabled |-> isLoading, inputDisabled |-> isLoading]

\* The three DOM properties take the values setLoading computed.
ApplyLoading(dom) ==
    /\ loadingHidden' = dom.loadingHidden
    /\ submitDisabled' = dom.submitDisabled
    /\ inputDisabled' = dom.inputDisabled

(***************************************************************************)
(* The model boundary: what generateContent can answer.                    *)
(***************************************************************************)
\* The tool-call requests the model draws from: a tool that succeeds, the
\* network-bound tool, an executor that throws on its arguments, and a name
\* no executor is registered for.
CallChoices ==
    { [name |-> "controlFan", args |-> [speed |-> 75, mode |-> "high"]],
      [name |-> "search_github_repo", args |-> [search_term |-> "tla"]],
      [name |-> "perform_code_critique", args |-> [code_block |-> "x"]],
      [name |-> "launchRocket", args |-> [target |-> "moon"]] }

\* candidates[0].content of a response that requests the calls cs.
CallContent(cs) ==
    [role |-> "model", parts |-> [i \in 1..Len(cs) |-> [functionCall |-> cs[i]]]]

\* candidates[0].content of a response that is plain text.
TextContent(t) == [role |-> "model", parts |-> <<[text |-> t]>>]

\* GenerateContentResponse.functionCalls: the functionCall parts of the
\* first candidate, in order.
RECURSIVE CallsOf(_)
CallsOf(parts) ==
    IF parts = <<>> THEN <<>>
    ELSE IF Has(Head(parts), "functionCall")
         THEN <<Head(parts).functionCall>> \o CallsOf(Tail(parts))
         ELSE CallsOf(Tail(parts))

functionCallsOf(response) == CallsOf(response.content.parts)

\* The answers with at most n tool-call requests, and the rejection.
ModelOutcomes(n) ==
    {[kind |-> "rejected"]}
    \cup {[kind |-> "response", content |-> TextContent("answer"), text |-> "answer"]}
    \cup {[kind |-> "response", content |-> CallContent(cs), text |-> ""] :
             cs \in SeqsUpTo(CallChoices, n) \ {<<>>}}

\* Math.floor(Math.random() * 40): Math.random() is in [0, 1).
RandomFloors == 0..39

\* new Date().toLocaleTimeString() at two moments.
ClockReadings == {"12:00:00", "12:00:01"}

\* What the environment can supply to a dispatch of the tool.
EnvFor(functionName) ==
    IF functionName = "search_github_repo"
    THEN {[fetch |-> f, rnd |-> 0, clock |-> "12:00:00"] : f \in FetchOutcomes}
    ELSE IF functionName = "getWeather"
    THEN {[fetch |-> [kind |-> "none"], rnd |-> n, clock |-> "12:00:00"] : n \in RandomFloors}
    ELSE IF functionName = "getCurrentTime"
    THEN {[fetch |-> [kind |-> "none"], rnd |-> 0, clock |-> c] : c \in ClockReadings}
    ELSE {NoEnv}

(***************************************************************************)
(* handleFormSubmit.                                                       *)
(***************************************************************************)
Runs == DOMAIN runs

\* Ghost fields nModel, nDispatch, firstCalls, outcome and lastEnv (what the
\* environment supplied to the last dispatch that settled) record what the
\* activation has done; the handler does not read them.
\* A submission that continues the history of the previous one.
NewRunKeepingHistory(prompt) ==
    [pc |-> "model",
     history |-> (IF runs = <<>> THEN <<>> ELSE runs[Len(runs)].history)
                 \o << [role |-> "user", parts |-> <<[text |-> prompt]>>] >>,
     functionCalls |-> <<>>,
     toolResponses |-> <<>>,
     nModel |-> 1,
     nDispatch |-> 0,
     firstCalls |-> -1,
     outcome |-> "none",
     lastEnv |-> NoEnv]

NewRun(prompt) ==
    [pc |-> "model",
     history |-> << [role |-> "user", parts |-> <<[text |-> prompt]>>] >>,
     functionCalls |-> <<>>,
     toolResponses |-> <<>>,
     nModel |-> 1,
     nDispatch |-> 0,
     firstCalls |-> -1,
     outcome |-> "none",
     lastEnv |-> NoEnv]

RECURSIVE SumOver(_, _)
SumOver(f, n) == IF n = 0 THEN 0 ELSE f[n] + SumOver(f, n - 1)

ModelCallsIssued == SumOver([r \in Runs |-> runs[r].nModel], Len(runs))
DispatchesIssued == SumOver([r \in Runs |-> runs[r].nDispatch], Len(runs))
\* An activation that is dispatching tools will issue one more model call.
ModelCallsCommitted == ModelCallsIssued + Cardinality({r \in Runs : runs[r].pc = "tool"})

\* The user edits the prompt input, which a disabled input does not allow.
\* The session's bounds end the typing with the submissions.
TypePrompt(v) ==
    /\ ~inputDisabled
    /\ Len(runs) < MaxSubmits
    /\ ModelCallsCommitted < MaxModelCalls
    /\ v # inputValue
    /\ inputValue' = v
    /\ ignoredSubmit' = FALSE
    /\ UNCHANGED <<inputDisabled, submitDisabled, loadingHidden, messages, runs, probe>>

\* Lines 107-127: the submit event up to the first generateContent call.  The
\* browser delivers no submit event of a form whose submit button is disabled.
handleFormSubmit ==
    /\ ~submitDisabled
    /\ LET prompt == StringOf(trim(inputValue))
       IN  IF prompt = ""
           THEN /\ ignoredSubmit' = TRUE
                /\ UNCHANGED <<inputValue, inputDisabled, submitDisabled, loadingHidden,
                               messages, runs>>
           ELSE /\ Len(runs) < MaxSubmits
                /\ ModelCallsCommitted < MaxModelCalls
                /\ inputValue' = <<>>
                /\ ApplyLoading(setLoading(TRUE))
                /\ messages' = addMessage(messages, prompt, "user")
                /\ runs' = Append(runs, NewRun(prompt))
                /\ ignoredSubmit' = FALSE
    /\ UNCHANGED probe

\* An outer catch that only logs to the console.
ModelCallFailedSilently(r) ==
    /\ messages' = messages
    /\ ApplyLoading(setLoading(FALSE))
    /\ runs' = [runs EXCEPT ![r].pc = "done", ![r].outcome = "failure"]

\* An outer catch without the finally block.
ModelCallFailedKeepsLoading(r) ==
    /\ messages' = addMessage(messages, ERROR_NOTICE, "model")
    /\ UNCHANGED <<loadingHidden, submitDisabled, inputDisabled>>
    /\ runs' = [runs EXCEPT ![r].pc = "done", ![r].outcome = "failure"]

\* Lines 186-191: the outer catch and the finally block.
ModelCallFailed(r) ==
    /\ messages' = addMessage(messages, ERROR_NOTICE, "model")
    /\ ApplyLoading(setLoading(FALSE))
    /\ runs' = [runs EXCEPT ![r].pc = "done", ![r].outcome = "failure"]

\* A final text whose handler returns without the finally block.
FinalResponseKeepsLoading(r, response) ==
    /\ messages' = addMessage(messages, response.text, "model")
    /\ UNCHANGED <<loadingHidden, submitDisabled, inputDisabled>>
    /\ runs' = [runs EXCEPT ![r].pc = "done", ![r].outcome = "text",
                            ![r].firstCalls = IF @ = -1 THEN 0 ELSE @]

\* Lines 184-185 and 189-191: the final text and the finally block.
FinalResponse(r, response) ==
    /\ messages' = addMessage(messages, response.text, "model")
    /\ ApplyLoading(setLoading(FALSE))
    /\ runs' = [runs EXCEPT ![r].pc = "done", ![r].outcome = "text",
                            ![r].firstCalls = IF @ = -1 THEN 0 ELSE @]

\* Lines 134-148: a response with tool calls opens a batch and dispatches its
\* first call.
StartBatch(r, response) ==
    LET calls == functionCallsOf(response)
    IN  /\ messages' = addMessage(messages,
                                  [functionName |-> calls[1].name, args |-> calls[1].args],
                                  "tool-call")
        /\ runs' = [runs EXCEPT ![r].pc = "tool",
                                ![r].history = Append(@, response.content),
                                ![r].functionCalls = calls,
                                ![r].toolResponses = <<>>,
                                ![r].nDispatch = @ + 1,
                                ![r].firstCalls = IF @ = -1 THEN Len(calls) ELSE @]
        /\ UNCHANGED <<loadingHidden, submitDisabled, inputDisabled>>

\* Lines 120-148 and 177-191: generateContent settles and the handler runs to
\* its next await or to its end.
ModelReturns(r, response) ==
    /\ runs[r].pc = "model"
    /\ IF response.kind = "rejected" THEN ModelCallFailed(r)
       ELSE IF functionCallsOf(response) = <<>> THEN FinalResponse(r, response)
       ELSE StartBatch(r, response)
    /\ UNCHANGED <<inputValue, ignoredSubmit, probe>>

\* Lines 146-166: what one dispatch adds to toolResponses.  The try block
\* covers callTool and the rendering of its result; the catch block builds
\* the error result from the message of whatever was thrown.
errorResult(message) == [error |-> "Function Execution Failed: " \o message]

toolResponseOf(call, env) ==
    LET res == callTool(call.name, call.args, env)
    IN  IF res.threw
        THEN [name |-> call.name, response |-> errorResult(res.message)]
        ELSE IF addMessageThrows([functionName |-> call.name, result |-> res.value], "tool-result")
        THEN [name |-> call.name, response |-> errorResult(RENDER_ERROR)]
        ELSE [name |-> call.name, response |-> res.value]

\* A tool turn that leaves out the calls that failed at the call site.
toolResponseContentWithoutErrors(toolResponses) ==
    LET kept == SelectSeq(toolResponses, LAMBDA e : DOMAIN e.response # {"error"})
    IN  [role |-> "tool",
         parts |-> [i \in 1..Len(kept) |->
                       [functionResponse |-> [name |-> kept[i].name,
                                              response |-> kept[i].response]]]]

\* Lines 170-175: the tool turn built from toolResponses.
toolResponseContent(toolResponses) ==
    [role |-> "tool",
     parts |-> [i \in 1..Len(toolResponses) |->
                   [functionResponse |-> [name |-> toolResponses[i].name,
                                          response |-> toolResponses[i].response]]]]

\* A batch whose tool turn is built and never pushed.
historyWithoutToolTurn(history, toolResponses) == history

\* Lines 174-175: history.push(toolResponse).
historyWithToolTurn(history, toolResponses) ==
    Append(history, toolResponseContent(toolResponses))

\* A loop whose catch block logs to the console and renders nothing.
resultShownUnlessCaught(log, entry) ==
    IF DOMAIN entry.response = {"error"} THEN log
    ELSE addMessage(log, [functionName |-> entry.name, result |-> entry.response], "tool-result")

\* Lines 151 and 160: the result of the dispatch, returned or caught, is
\* rendered once; a rendering that threw in the try block appended nothing.
resultShown(log, entry) ==
    addMessage(log, [functionName |-> entry.name, result |-> entry.response], "tool-result")

\* Lines 148-181: the handler records the result of the dispatch and either
\* dispatches the next call of the batch or sends the results to the model.
DispatchSettled(r, env) ==
    LET run == runs[r]
        k == Len(run.toolResponses) + 1
        call == run.functionCalls[k]
        entry == toolResponseOf(call, env)
        shown == resultShown(messages, entry)
        responses == Append(run.toolResponses, entry)
    IN  IF k < Len(run.functionCalls)
        THEN /\ messages' = addMessage(shown,
                                       [functionName |-> run.functionCalls[k + 1].name,
                                        args |-> run.functionCalls[k + 1].args],
                                       "tool-call")
             /\ runs' = [runs EXCEPT ![r].toolResponses = responses,
                                     ![r].nDispatch = @ + 1,
                                     ![r].lastEnv = env]
        ELSE /\ messages' = shown
             /\ runs' = [runs EXCEPT ![r].toolResponses = responses,
                                     ![r].history = historyWithToolTurn(@, responses),
                                     ![r].pc = "model",
                                     ![r].nModel = @ + 1,
                                     ![r].lastEnv = env]

\* A loop without the inner try and catch: what callTool throws reaches the
\* outer catch.
ToolReturnsAbortOnThrow(r, env) ==
    /\ runs[r].pc = "tool"
    /\ LET call == runs[r].functionCalls[Len(runs[r].toolResponses) + 1]
       IN  IF callTool(call.name, call.args, env).threw
           THEN ModelCallFailed(r)
           ELSE DispatchSettled(r, env) /\ UNCHANGED <<inputDisabled, submitDisabled, loadingHidden>>
    /\ UNCHANGED <<inputValue, ignoredSubmit, probe>>

\* A loop with an iteration cap: after the second batch the handler gives up
\* instead of calling the model again.
ToolReturnsWithCap(r, env) ==
    /\ runs[r].pc = "tool"
    /\ IF runs[r].nModel >= 2 /\ Len(runs[r].toolResponses) + 1 = Len(runs[r].functionCalls)
       THEN /\ messages' = addMessage(resultShown(messages, toolResponseOf(
                                          runs[r].functionCalls[Len(runs[r].functionCalls)], env)),
                                      "Too many tool iterations.", "model")
            /\ ApplyLoading(setLoading(FALSE))
            /\ runs' = [runs EXCEPT ![r].pc = "done", ![r].outcome = "failure"]
       ELSE DispatchSettled(r, env) /\ UNCHANGED <<inputDisabled, submitDisabled, loadingHidden>>
    /\ UNCHANGED <<inputValue, ignoredSubmit, probe>>

\* Lines 148-181: callTool settles and the handler runs to its next await.
ToolReturns(r, env) ==
    /\ runs[r].pc = "tool"
    /\ DispatchSettled(r, env)
    /\ UNCHANGED <<inputValue, inputDisabled, submitDisabled, loadingHidden, ignoredSubmit, probe>>

\* Lines 194-213: the page after load, with the welcome message rendered.
PageLoaded ==
    /\ inputValue = <<>>
    /\ inputDisabled = FALSE
    /\ submitDisabled = FALSE
    /\ loadingHidden = TRUE
    /\ messages = addMessage(<<>>, WELCOME, "model")
    /\ runs = <<>>
    /\ ignoredSubmit = FALSE

\* The session of the page: no dispatch is made outside the loop.
NoProbe == [call |-> [name |-> "", args |-> <<>>], envs |-> <<>>, results |-> <<>>]

Init ==
    /\ PageLoaded
    /\ probe = NoProbe

\* A generateContent call settles.  Within the bounds of the session the
\* answer may request tools; beyond them it is the final text or a rejection.
ModelSettles ==
    \E r \in Runs :
        \E response \in ModelOutcomes(IF ModelCallsCommitted < MaxModelCalls
                                      THEN MaxDispatches - DispatchesIssued ELSE 0) :
            ModelReturns(r, response)

\* A callTool call settles.
ToolSettles ==
    \E r \in Runs :
        /\ runs[r].pc = "tool"
        /\ \E env \in EnvFor(runs[r].functionCalls[Len(runs[r].toolResponses) + 1].name) :
               ToolReturns(r, env)

Next ==
    \/ \E v \in InputValues : TypePrompt(v)
    \/ handleFormSubmit
    \/ ModelSettles
    \/ ToolSettles

Spec == Init /\ [][Next]_vars

\* The session in which every model call and every dispatch settles: the
\* promises the handler awaits are eventually resolved or rejected.
FairSpec == Spec /\ WF_vars(ModelSettles) /\ WF_vars(ToolSettles)

(***************************************************************************)
(* One dispatch in isolation: a call is dispatched twice, each time as the *)
(* loop dispatches it (lines 146-166), against what the environment        *)
(* supplies that time.                                                     *)
(***************************************************************************)
\* The calls dispatched in isolation: every declared tool, getWeather with
\* and without a unit, an executor that throws on its arguments, and names
\* that no declaration carries.
ProbeCalls ==
    { [name |-> "getWeather", args |-> [location |-> " Cairo "]],
      [name |-> "getWeather", args |-> [location |-> "Cairo", unit |-> "celsius"]],
      [name |-> "getWeather", args |-> [location |-> "Cairo", unit |-> "fahrenheit"]],
      [name |-> "getWeather", args |-> [location |-> "Cairo", unit |-> "Celsius"]],
      [name |-> "getCurrentTime", args |-> [location |-> "Cairo"]],
      [name |-> "controlFan", args |-> [speed |-> 75, mode |-> "high"]],
      [name |-> "search_github_repo", args |-> [search_term |-> "tla"]],
      [name |-> "execute_code", args |-> [code_block |-> "x"]],
      [name |-> "retrieve_knowledge", args |-> [query |-> "q"]],
      [name |-> "perform_code_critique", args |-> [code_block |-> "x", execution_logs |-> "error"]],
      [name |-> "perform_code_critique", args |-> [code_block |-> "x"]],
      [name |-> "launchRocket", args |-> [target |-> "moon"]],
      [name |-> "getweather", args |-> [location |-> "Cairo"]],
      [name |-> "", args |-> [location |-> "Cairo"]] }

DispatchInit ==
    /\ PageLoaded
    /\ probe \in UNION { { [call |-> c, envs |-> <<a, b>>, results |-> <<>>] :
                              a \in EnvFor(c.name), b \in EnvFor(c.name) } :
                          c \in ProbeCalls }

\* Lines 146-166 for the call of the probe: what callTool settled with and
\* the entry the loop pushes to toolResponses.
DispatchInIsolation ==
    /\ Len(probe.results) < Len(probe.envs)
    /\ LET env == probe.envs[Len(probe.results) + 1]
       IN  probe' = [probe EXCEPT !.results =
                        Append(@, [settled |-> callTool(probe.call.name, probe.call.args, env),
                                   entry |-> toolResponseOf(probe.call, env)])]
    /\ UNCHANGED <<inputValue, inputDisabled, submitDisabled, loadingHidden, messages, runs,
                   ignoredSubmit>>

DispatchNext == DispatchInIsolation

DispatchSpec == DispatchInit /\ [][DispatchNext]_vars

(***************************************************************************)
(* Vocabulary of the properties.                                           *)
(***************************************************************************)
Last(s) == s[Len(s)]
IsPrefix(s, t) == Len(s) <= Len(t) /\ SubSeq(t, 1, Len(s)) = s

IsUserTurn(t) == t.role = "user"
IsToolCallTurn(t) == t.role = "model" /\ CallsOf(t.parts) # <<>>
IsToolResultTurn(t) == t.role = "tool"
IsModelTextTurn(t) == t.role = "model" /\ \E i \in DOMAIN t.parts : Has(t.parts[i], "text")

\* The result turn answers the call turn: as many results as requests, the
\* i-th result under the name of the i-th request.
Paired(callTurn, resultTurn) ==
    /\ IsToolResultTurn(resultTurn)
    /\ Len(resultTurn.parts) = Len(callTurn.parts)
    /\ \A i \in DOMAIN callTurn.parts :
           resultTurn.parts[i].functionResponse.name = callTurn.parts[i].functionCall.name

\* A result payload that reports a failure to the model.
IsFailurePayload(p) ==
    \/ Has(p, "status") /\ p.status = "failure"
    \/ Has(p, "error") /\ p.error # "null"

\* The payload the loop's catch block builds.
IsCallSiteFailure(p) == DOMAIN p = {"error"}

InFlight(r) == runs[r].pc # "done"
Idle == \A r \in Runs : ~InFlight(r)
AwaitingResponse == submitDisabled /\ inputDisabled /\ ~loadingHidden
NotAwaitingResponse == ~submitDisabled /\ ~inputDisabled /\ loadingHidden

(***************************************************************************)
(* C1.  Every tool-call turn in a history is directly followed by exactly  *)
(* one tool-result turn with one result per request, the i-th under the    *)
(* name of the i-th request, whether the dispatches succeeded or failed;   *)
(* the only tool-call turn without its result turn is the one whose batch  *)
(* is being dispatched, and the results collected so far follow the        *)
(* requests in order.                                                      *)
(***************************************************************************)
C1_BatchAnsweredInOrder ==
    \A r \in Runs :
        LET h == runs[r].history
        IN  /\ \A k \in DOMAIN h :
                  /\ IsToolCallTurn(h[k]) =>
                        IF k < Len(h)
                        THEN /\ Paired(h[k], h[k + 1])
                             /\ k + 2 <= Len(h) => ~IsToolResultTurn(h[k + 2])
                        ELSE runs[r].pc = "tool"
                  /\ IsToolResultTurn(h[k]) => k > 1 /\ IsToolCallTurn(h[k - 1])
            /\ runs[r].pc = "tool" =>
                  /\ IsToolCallTurn(Last(h))
                  /\ CallsOf(Last(h).parts) = runs[r].functionCalls
                  /\ Len(runs[r].toolResponses) < Len(runs[r].functionCalls)
                  /\ \A i \in DOMAIN runs[r].toolResponses :
                         runs[r].toolResponses[i].name = runs[r].functionCalls[i].name
            /\ runs[r].pc = "model" /\ runs[r].nModel > 1 => IsToolResultTurn(Last(h))

\* A batch of two requests was answered, one dispatch failed at the call
\* site and the other succeeded.
C1_Witness ==
    \E r \in Runs :
        \E k \in DOMAIN runs[r].history :
            LET t == runs[r].history[k]
            IN  /\ IsToolResultTurn(t)
                /\ Len(t.parts) = 2
                /\ IsCallSiteFailure(t.parts[1].functionResponse.response)
                /\ ~IsFailurePayload(t.parts[2].functionResponse.response)

(***************************************************************************)
(* C2.  A dispatch in which callTool throws (an unknown name, an executor  *)
(* that throws) does not end the activation: its failure is recorded as    *)
(* the result of the call, the next call of the batch is dispatched, and   *)
(* after the last call the model is called again with a history that ends  *)
(* with the tool turn holding the failure.                                 *)
(***************************************************************************)
CurrentCall(r) == runs[r].functionCalls[Len(runs[r].toolResponses) + 1]
CurrentCallThrows(r) ==
    \A env \in EnvFor(CurrentCall(r).name) :
        callTool(CurrentCall(r).name, CurrentCall(r).args, env).threw

C2_ToolFailureDoesNotAbort ==
    [][\A r \in Runs :
          (runs[r].pc = "tool" /\ runs'[r] # runs[r] /\ CurrentCallThrows(r)) =>
              LET run == runs[r]
                  after == runs'[r]
                  k == Len(run.toolResponses) + 1
                  call == CurrentCall(r)
                  failure == [name |-> call.name,
                              response |-> errorResult(callTool(call.name, call.args, NoEnv).message)]
              IN  /\ after.pc # "done"
                  /\ after.outcome = "none"
                  /\ after.toolResponses = Append(run.toolResponses, failure)
                  /\ k < Len(run.functionCalls) =>
                        /\ after.pc = "tool"
                        /\ after.nDispatch = run.nDispatch + 1
                        /\ after.nModel = run.nModel
                  /\ k = Len(run.functionCalls) =>
                        /\ after.pc = "model"
                        /\ after.nModel = run.nModel + 1
                        /\ Len(after.history) = Len(run.history) + 1
                        /\ IsToolResultTurn(Last(after.history))
                        /\ Len(Last(after.history).parts) = k
                        /\ Last(after.history).parts[k].functionResponse = failure
      ]_vars

\* The first call of a batch threw, the second call was dispatched all the
\* same and the model was called again with both results.
C2_Witness ==
    \E r \in Runs :
        /\ runs[r].pc = "model"
        /\ runs[r].nModel = 2
        /\ runs[r].nDispatch = 2
        /\ Len(Last(runs[r].history).parts) = 2
        /\ Last(runs[r].history).parts[1].functionResponse.response
              = errorResult("Unknown function: launchRocket")
        /\ Last(runs[r].history).parts[2].functionResponse.name = "controlFan"

(***************************************************************************)
(* C3.  Every failure payload in a tool turn carries the status "failure"  *)
(* and an error description.                                               *)
(***************************************************************************)
C3_FailuresCarryStatusAndError ==
    \A r \in Runs :
        \A k \in DOMAIN runs[r].history :
            IsToolResultTurn(runs[r].history[k]) =>
                \A i \in DOMAIN runs[r].history[k].parts :
                    LET p == runs[r].history[k].parts[i].functionResponse.response
                    IN  IsFailurePayload(p) =>
                            /\ Has(p, "status")
                            /\ p.status = "failure"
                            /\ Has(p, "error")

(***************************************************************************)
(* C4.  The step in which a model call fails, the first of a request or a  *)
(* later one, ends the activation: it renders the failure notice once and  *)
(* nothing else, dispatches no tool, issues no model call and clears the   *)
(* loading state; the activation does nothing afterwards, and the log      *)
(* holds one notice per failed request.                                    *)
(***************************************************************************)
IsNotice(m) == m = TextMessage(ERROR_NOTICE, "model")
NoticesShown == Cardinality({i \in DOMAIN messages : IsNotice(messages[i])})
FailedRuns == {r \in Runs : runs[r].outcome = "failure"}

C4_ModelFailureAborts ==
    /\ [](NoticesShown = Cardinality(FailedRuns))
    /\ [][\A r \in Runs :
             /\ (runs[r].pc = "model" /\ runs'[r].outcome = "failure") =>
                   /\ runs'[r].pc = "done"
                   /\ runs'[r].nModel = runs[r].nModel
                   /\ runs'[r].nDispatch = runs[r].nDispatch
                   /\ runs'[r].history = runs[r].history
                   /\ messages' = Append(messages, TextMessage(ERROR_NOTICE, "model"))
                   /\ NotAwaitingResponse'
                   /\ Idle'
             /\ runs[r].outcome = "failure" => runs'[r] = runs[r]
        ]_vars

\* The second model call of a request failed, after a batch was dispatched.
C4_Witness ==
    \E r \in Runs :
        /\ runs[r].outcome = "failure"
        /\ runs[r].nModel = 2
        /\ runs[r].nDispatch >= 1
        /\ IsNotice(Last(messages))
        /\ NotAwaitingResponse

(***************************************************************************)
(* C5.  The history of a request whose model call failed holds no tool-    *)
(* call turn without its results: it is the user turn alone, or it ends    *)
(* with the tool-result turn that answers the last tool-call turn.         *)
(***************************************************************************)
C5_NoOrphanAtModelFailure ==
    \A r \in FailedRuns :
        LET h == runs[r].history
            n == Len(h)
        IN  \/ n = 1 /\ IsUserTurn(h[1])
            \/ /\ n >= 3
               /\ IsToolCallTurn(h[n - 1])
               /\ Paired(h[n - 1], h[n])
               /\ \A k \in 1..n : IsToolCallTurn(h[k]) => k < n /\ IsToolResultTurn(h[k + 1])

\* A model call failed after a batch of two calls had been answered.
C5_Witness ==
    \E r \in FailedRuns :
        /\ Len(runs[r].history) = 3
        /\ Len(runs[r].history[2].parts) = 2
        /\ Len(runs[r].history[3].parts) = 2

(***************************************************************************)
(* C6.  At most one generateContent call of the session is outstanding,    *)
(* and at most one activation of the handler is in flight.                 *)
(***************************************************************************)
Outstanding == {r \in Runs : runs[r].pc = "model"}

C6_OneModelRequestOutstanding ==
    /\ Cardinality(Outstanding) <= 1
    /\ Cardinality({r \in Runs : InFlight(r)}) <= 1

\* The second request of a session has its model call outstanding after the
\* first request ran through a batch and completed.
C6_Witness ==
    /\ Len(runs) = 2
    /\ runs[1].pc = "done"
    /\ runs[1].nModel = 2
    /\ runs[2].pc = "model"

(***************************************************************************)
(* C7.  The history the session sends to the model only grows: each step   *)
(* leaves the turns it held in place and unchanged.                        *)
(***************************************************************************)
\* The history of the session is the one its latest request sends.
SessionHistory == IF runs = <<>> THEN <<>> ELSE Last(runs).history

C7_SessionHistoryAppendOnly ==
    [][IsPrefix(SessionHistory, SessionHistory')]_vars

(***************************************************************************)
(* C8.  When the first response of a request carries no tool call, that    *)
(* step ends the loop: one model call was made, no tool was dispatched,    *)
(* the text is rendered once, the session is idle, and the activation      *)
(* does nothing afterwards.                                                *)
(***************************************************************************)
C8_TextFirstEndsLoop ==
    [][\A r \in Runs :
          /\ (runs[r].firstCalls = -1 /\ runs'[r].firstCalls = 0) =>
                /\ runs'[r].pc = "done"
                /\ runs'[r].outcome = "text"
                /\ runs'[r].nModel = 1
                /\ runs'[r].nDispatch = 0
                /\ messages' = Append(messages, TextMessage("answer", "model"))
                /\ NotAwaitingResponse'
                /\ Idle'
          /\ runs[r].firstCalls = 0 => runs'[r] = runs[r]
      ]_vars

\* A request was answered with text at once and the session is idle.
C8_Witness ==
    \E r \in Runs :
        /\ runs[r].firstCalls = 0
        /\ runs[r].outcome = "text"
        /\ Last(messages) = TextMessage("answer", "model")
        /\ Idle
        /\ NotAwaitingResponse

(***************************************************************************)
(* C9.  The history of a request that ended with the final text ends with  *)
(* a model-text turn.                                                      *)
(***************************************************************************)
C9_FinalTextInHistory ==
    \A r \in Runs :
        runs[r].outcome = "text" => IsModelTextTurn(Last(runs[r].history))

(***************************************************************************)
(* C10.  The loading state (input and submit button disabled, spinner      *)
(* shown) is set in every state in which a request is in flight and        *)
(* cleared in every state in which none is, however the request ended.     *)
(***************************************************************************)
C10_LoadingIffInFlight ==
    /\ (\E r \in Runs : InFlight(r)) => AwaitingResponse
    /\ Idle => NotAwaitingResponse

\* One request ended with the failure notice, another with the final text,
\* and the loading state is cleared.
C10_Witness ==
    /\ Len(runs) = 2
    /\ runs[1].outcome = "failure"
    /\ runs[2].outcome = "text"
    /\ Idle
    /\ NotAwaitingResponse

(***************************************************************************)
(* C11.  Rendering has no influence on the loop: the result the loop       *)
(* records for a dispatch is what callTool returned, or the error result   *)
(* of what callTool threw, whether or not the result could be rendered.    *)
(***************************************************************************)
\* The step of activation r in which a dispatch settles.
DispatchStep(r) == runs[r].pc = "tool" /\ runs'[r] # runs[r]

C11_RenderingDoesNotChangeResults ==
    [][\A r \in Runs :
          DispatchStep(r) =>
              LET call == CurrentCall(r)
                  k == Len(runs[r].toolResponses) + 1
                  res == callTool(call.name, call.args, runs'[r].lastEnv)
              IN  runs'[r].toolResponses[k]
                      = [name |-> call.name,
                         response |-> IF res.threw THEN errorResult(res.message) ELSE res.value]
      ]_vars

(***************************************************************************)
(* C12.  A dispatch of search_github_repo whose request is rejected or     *)
(* answered with a non-success status does not throw: the loop records a   *)
(* payload with status "failure" and a non-empty error string as the       *)
(* result of the call, goes on, and sends that payload to the model in     *)
(* the tool turn of the batch.                                             *)
(***************************************************************************)
FetchFailed(fetch) == fetch.kind = "rejected" \/ (fetch.kind = "response" /\ ~fetch.ok)

C12_SearchFailureIsReturned ==
    [][\A r \in Runs :
          (/\ DispatchStep(r)
           /\ CurrentCall(r).name = "search_github_repo"
           /\ FetchFailed(runs'[r].lastEnv.fetch)) =>
              LET k == Len(runs[r].toolResponses) + 1
                  after == runs'[r]
                  entry == after.toolResponses[k]
              IN  /\ entry.name = "search_github_repo"
                  /\ Has(entry.response, "status")
                  /\ entry.response.status = "failure"
                  /\ Has(entry.response, "error")
                  /\ entry.response.error # ""
                  /\ after.pc # "done"
                  /\ k < Len(runs[r].functionCalls) => after.pc = "tool"
                  /\ k = Len(runs[r].functionCalls) =>
                        /\ after.pc = "model"
                        /\ after.nModel = runs[r].nModel + 1
                        /\ IsToolResultTurn(Last(after.history))
                        /\ Last(after.history).parts[k].functionResponse
                               = [name |-> entry.name, response |-> entry.response]
      ]_vars

\* The model was called again with the failure of a rejected search in the
\* tool turn.
C12_Witness ==
    \E r \in Runs :
        /\ runs[r].pc = "model"
        /\ runs[r].nModel = 2
        /\ runs[r].lastEnv.fetch.kind = "rejected"
        /\ Last(Last(runs[r].history).parts).functionResponse
               = [name |-> "search_github_repo", response |-> SearchFailure("Failed to fetch")]

(***************************************************************************)
(* C13.  The display log is the welcome message followed by the events of  *)
(* the requests in order, and the events of one request are: the user      *)
(* event; then for each tool call, batch after batch in request order,     *)
(* one tool-call event followed by one tool-result event under the same    *)
(* name, before the tool-call event of the next call; and last, once the   *)
(* request has ended, one model event, the final text or the failure       *)
(* notice.                                                                 *)
(***************************************************************************)
CallEvent(call) ==
    [type |-> "tool-call", payload |-> [functionName |-> call.name, args |-> call.args]]
ResultEvent(name, response) ==
    [type |-> "tool-result", payload |-> [functionName |-> name, result |-> response]]

\* The events of the calls from the i-th on, of which the calls up to the
\* answered-th have their result.
RECURSIVE CallEvents(_, _, _)
CallEvents(calls, results, i) ==
    IF i > Len(calls) THEN <<>>
    ELSE <<CallEvent(calls[i])>>
         \o (IF i <= Len(results)
             THEN <<ResultEvent(calls[i].name, results[i].functionResponse.response)>>
             ELSE <<>>)
         \o CallEvents(calls, results, i + 1)

\* The events of the batches of a history from turn j on.
RECURSIVE BatchEvents(_, _)
BatchEvents(h, j) ==
    IF j > Len(h) THEN <<>>
    ELSE IF j = Len(h) THEN <<>>
    ELSE CallEvents(CallsOf(h[j].parts), h[j + 1].parts, 1) \o BatchEvents(h, j + 2)

RequestEvents(run) ==
    <<TextMessage(run.history[1].parts[1].text, "user")>>
    \o BatchEvents(run.history, 2)
    \o (IF run.pc = "tool"
        THEN CallEvents(SubSeq(run.functionCalls, 1, Len(run.toolResponses) + 1),
                        toolResponseContent(run.toolResponses).parts, 1)
        ELSE <<>>)
    \o (IF run.outcome = "text" THEN <<TextMessage("answer", "model")>>
        ELSE IF run.outcome = "failure" THEN <<TextMessage(ERROR_NOTICE, "model")>>
        ELSE <<>>)

RECURSIVE SessionEvents(_)
SessionEvents(n) ==
    IF n = 0 THEN <<TextMessage(WELCOME, "model")>>
    ELSE SessionEvents(n - 1) \o RequestEvents(runs[n])

C13_LogOrder ==
    /\ messages = SessionEvents(Len(runs))
    /\ \A r \in Runs : (runs[r].outcome # "none") <=> (runs[r].pc = "done")

\* The log of a request with a batch of two calls, the first caught at the
\* call site, that ended with the final text.
C13_Witness ==
    \E r \in Runs :
        /\ runs[r].outcome = "text"
        /\ Len(runs[r].history) = 3
        /\ Len(runs[r].history[2].parts) = 2
        /\ IsCallSiteFailure(runs[r].history[3].parts[1].functionResponse.response)
        /\ Len(messages) = 7

(***************************************************************************)
(* C14.  An activation ends only in a step in which a model call settles   *)
(* without tool calls (the final text) or fails; a response with tool      *)
(* calls always starts a dispatch, and the last result of every batch is   *)
(* always followed by another model call, however many batches the         *)
(* request has run: the number of model calls of a request in flight is    *)
(* the number of its answered batches plus one.                            *)
(***************************************************************************)
ToolTurns(h) == Cardinality({k \in DOMAIN h : IsToolResultTurn(h[k])})

C14_NoIterationCap ==
    /\ [](\A r \in Runs : runs[r].pc = "model" => runs[r].nModel = ToolTurns(runs[r].history) + 1)
    /\ [][\A r \in Runs :
             /\ (runs[r].pc # "done" /\ runs'[r].pc = "done") =>
                   /\ runs[r].pc = "model"
                   /\ runs'[r].history = runs[r].history
                   /\ runs'[r].outcome \in {"text", "failure"}
             /\ (runs[r].pc = "model" /\ runs'[r].history # runs[r].history) =>
                   /\ runs'[r].pc = "tool"
                   /\ IsToolCallTurn(Last(runs'[r].history))
                   /\ runs'[r].nDispatch = runs[r].nDispatch + 1
             /\ (DispatchStep(r) /\ Len(runs[r].toolResponses) + 1 = Len(runs[r].functionCalls)) =>
                   /\ runs'[r].pc = "model"
                   /\ runs'[r].nModel = runs[r].nModel + 1
        ]_vars

\* A request that ran two batches has its third model call outstanding.
C14_Witness ==
    \E r \in Runs :
        /\ runs[r].pc = "model"
        /\ runs[r].nModel = 3
        /\ ToolTurns(runs[r].history) = 2

(***************************************************************************)
(* C15.  When every model call and every dispatch settles, every accepted  *)
(* request ends: eventually it has rendered its final text or the failure  *)
(* notice, no request is in flight and the loading state is cleared.       *)
(***************************************************************************)
C15_RequestEnds ==
    (\E r \in Runs : InFlight(r))
        ~> (/\ Idle
            /\ \A r \in Runs : runs[r].outcome \in {"text", "failure"}
            /\ NotAwaitingResponse)

\* A request that ran a batch and two model calls has ended and the session
\* is idle.
C15_Witness ==
    \E r \in Runs :
        /\ runs[r].pc = "done"
        /\ runs[r].nModel = 2
        /\ runs[r].nDispatch = 2
        /\ Idle
        /\ NotAwaitingResponse

(***************************************************************************)
(* C16.  The names declared in functionDeclarations are the names callTool *)
(* dispatches to an executor: the seven declared names are pairwise        *)
(* distinct, and callTool throws the unknown-function error for a name if  *)
(* and only if the name is not declared.                                   *)
(***************************************************************************)
DeclaredNames == {functionDeclarations[i] : i \in DOMAIN functionDeclarations}

C16_DeclaredIffDispatched ==
    /\ Len(functionDeclarations) = 7
    /\ Cardinality(DeclaredNames) = Len(functionDeclarations)
    /\ \A k \in DOMAIN probe.results :
           (probe.results[k].settled = Threw("Unknown function: " \o probe.call.name))
               <=> (probe.call.name \notin DeclaredNames)

\* A name that differs from a declared one only in case was dispatched twice
\* and rejected as unknown both times.
C16_Witness ==
    /\ probe.call.name = "getweather"
    /\ Len(probe.results) = 2
    /\ probe.results[2].settled = Threw("Unknown function: getweather")

(***************************************************************************)
(* C17.  getWeather dispatched with a location returns the location        *)
(* unchanged and a temperature that is an integer in 10..49 followed by    *)
(* the degree sign and the unit letter: F when no unit is given, and C     *)
(* exactly when the unit is 'celsius'.                                     *)
(***************************************************************************)
Temperatures(letter) == {ToString(t) \o "° " \o letter : t \in 10..49}

C17_WeatherReport ==
    \A k \in DOMAIN probe.results :
        (probe.call.name = "getWeather" /\ Has(probe.call.args, "location")) =>
            LET out == probe.results[k].settled
                args == probe.call.args
            IN  /\ ~out.threw
                /\ DOMAIN out.value = {"temperature", "location"}
                /\ out.value.location = args.location
                /\ out.value.temperature \in Temperatures("F") \cup Temperatures("C")
                /\ ~Has(args, "unit") => out.value.temperature \in Temperatures("F")
                /\ (out.value.temperature \in Temperatures("C"))
                       <=> (Has(args, "unit") /\ args.unit = "celsius")
                /\ probe.results[k].entry = [name |-> "getWeather", response |-> out.value]

\* getWeather without a unit reported the highest temperature in Fahrenheit
\* for a padded location.
C17_Witness ==
    /\ probe.call = [name |-> "getWeather", args |-> [location |-> " Cairo "]]
    /\ Len(probe.results) = 1
    /\ probe.results[1].settled.value = [temperature |-> "49° F", location |-> " Cairo "]

(***************************************************************************)
(* C18.  When a dispatch fails and the same call, with the same name and   *)
(* arguments, is dispatched again and fails again, the two failure         *)
(* payloads have the same set of fields; for an unknown tool name they     *)
(* are equal, error text included.                                         *)
(***************************************************************************)
C18_RepeatedFailureSameShape ==
    Len(probe.results) = 2 =>
        LET first == probe.results[1].entry.response
            second == probe.results[2].entry.response
        IN  (IsFailurePayload(first) /\ IsFailurePayload(second)) =>
                /\ DOMAIN first = DOMAIN second
                /\ probe.call.name \notin DeclaredNames => first = second

(***************************************************************************)
(* C19.  The history sent on the k-th model call of a request is the user  *)
(* turn of this request followed by k-1 pairs of a tool-call turn and its  *)
(* tool-result turn, all of this request: its length is 2k-1, its only     *)
(* user turn is the first and carries the prompt of this submission, and   *)
(* its tool-call turns hold the calls shown since this submission.         *)
(***************************************************************************)
\* The events of the log rendered from the r-th user event up to the next.
RECURSIVE EventsOfRequest(_, _, _)
EventsOfRequest(log, r, seen) ==
    IF log = <<>> THEN <<>>
    ELSE LET n == IF Head(log).type = "user" THEN seen + 1 ELSE seen
         IN  (IF n = r THEN <<Head(log)>> ELSE <<>>) \o EventsOfRequest(Tail(log), r, n)

\* The calls of the tool-call turns of a history, in order.
RECURSIVE HistoryCalls(_)
HistoryCalls(h) ==
    IF h = <<>> THEN <<>>
    ELSE (IF Head(h).role = "model" THEN CallsOf(Head(h).parts) ELSE <<>>) \o HistoryCalls(Tail(h))

C19_HistoryOfKthModelCall ==
    \A r \in Runs :
        runs[r].pc = "model" =>
            LET h == runs[r].history
                k == runs[r].nModel
                shown == EventsOfRequest(messages, r, 0)
                calls == HistoryCalls(h)
            IN  /\ Len(h) = 2 * k - 1
                /\ IsUserTurn(h[1])
                /\ h[1].parts = <<[text |-> shown[1].payload.textContent]>>
                /\ \A j \in 2..Len(h) : ~IsUserTurn(h[j])
                /\ \A j \in 1..(k - 1) : IsToolCallTurn(h[2 * j]) /\ Paired(h[2 * j], h[2 * j + 1])
                /\ SelectSeq(shown, LAMBDA m : m.type = "tool-call")
                       = [i \in 1..Len(calls) |-> CallEvent(calls[i])]

\* The second model call of the second request, after a first request with
\* another prompt has ended.
C19_Witness ==
    /\ Len(runs) = 2
    /\ runs[1].pc = "done"
    /\ runs[2].pc = "model"
    /\ runs[2].nModel = 2
    /\ Len(runs[2].history) = 3
    /\ runs[1].history[1] # runs[2].history[1]

(***************************************************************************)
(* C20.  A submit of a prompt that is empty or holds only blanks changes   *)
(* nothing: while the form can be submitted and the prompt is blank, no    *)
(* step renders an event, creates a history, issues a model call or        *)
(* changes the loading state, and the ignored submit leaves the prompt as  *)
(* it is.                                                                  *)
(***************************************************************************)
IsBlank(s) == \A i \in DOMAIN s : s[i] = " "

C20_BlankSubmitChangesNothing ==
    [][(~submitDisabled /\ IsBlank(inputValue)) =>
           /\ messages' = messages
           /\ runs' = runs
           /\ UNCHANGED <<inputDisabled, submitDisabled, loadingHidden>>
           /\ ignoredSubmit' => inputValue' = inputValue
      ]_vars

\* After a request has ended, a prompt of two blanks was submitted and
\* ignored.
C20_Witness ==
    /\ ignoredSubmit
    /\ inputValue = <<" ", " ">>
    /\ Len(runs) = 1
    /\ Idle
    /\ Len(messages) = 3
    /\ NotAwaitingResponse

====
